---- MODULE Spec2Model ----
(***************************************************************************)
(* Model of the React counter: Counter (state owner, Counter.js) and       *)
(* CounterButton (stateless button, CounterButton.js).                     *)
(*                                                                         *)
(* A function value created by a render of Counter is a closure: it is     *)
(* modelled as a record holding the function's name and the value of the   *)
(* constant `count` visible in the render that created it.                 *)
(***************************************************************************)
EXTENDS Integers, Sequences, FiniteSets

VARIABLES
    state,     \* the state cell behind useState(0)
    pending,   \* TRUE when a re-render has been scheduled and has not run yet
    props,     \* the properties objects handed to the CounterButton instances
    tree,      \* the view tree returned by the last render
    clicked,   \* history: indices of the buttons activated so far
    trace,     \* history: names of the callbacks invoked so far
    failures   \* number of activations that ended in an invocation failure

vars == <<state, pending, props, tree, clicked, trace, failures>>

\* Bound on the number of activations explored.
MaxClicks == 4

\* Number of CounterButton instances mounted by the arbitrary instantiator.
HostButtons == 2

\* Longest run of '*=5' clicks behind the starting values of a long-lived
\* Counter.
MaxScale == 441

----------------------------------------------------------------------------
(* JavaScript numbers                                                      *)
(*                                                                         *)
(* count is a JavaScript number, an IEEE 754 double.  Every value the      *)
(* counter can hold is 0, an integer m * 2^e with a significand m below    *)
(* 2^53, or Infinity.  The significand is kept in two limbs,               *)
(* m = hi * Limb + lo; for e > 0 the significand is at least 2^52.         *)

Limb == 2^27

HiLimit == 2^26

\* Largest exponent of a finite double with a 53-bit integer significand.
MaxExponent == 1023 - 52

Num(n) == [sign |-> 1, inf |-> FALSE, hi |-> 0, lo |-> n, e |-> 0]

Infinity == [sign |-> 1, inf |-> TRUE, hi |-> 0, lo |-> 0, e |-> 0]

\* The double nearest to sign * (hi * Limb + lo) * 2^e, ties to the even
\* significand, for a significand below 2^56; Infinity beyond the range.
Round(sign, hi, lo, e) ==
    LET s  == IF hi < HiLimit THEN 0
              ELSE IF hi < 2 * HiLimit THEN 1
              ELSE IF hi < 4 * HiLimit THEN 2 ELSE 3
        p   == 2^s
        rem == lo % p
        qlo == (lo \div p) + (hi % p) * (Limb \div p)
        qhi == hi \div p
        up  == 2 * rem > p \/ (2 * rem = p /\ qlo % 2 = 1)
        rlo == IF up THEN (qlo + 1) % Limb ELSE qlo
        rhi == IF up /\ qlo + 1 = Limb THEN qhi + 1 ELSE qhi
        nhi == IF rhi = HiLimit THEN HiLimit \div 2 ELSE rhi
        ne  == IF rhi = HiLimit THEN e + s + 1 ELSE e + s
    IN  IF ne > MaxExponent
        THEN [Infinity EXCEPT !.sign = sign]
        ELSE [sign |-> sign, inf |-> FALSE, hi |-> nhi, lo |-> rlo, e |-> ne]

\* count + 1 for a count that is not negative.
PlusOne(count) ==
    IF count.e = 0
    THEN Round(1, count.hi + (count.lo + 1) \div Limb,
                  (count.lo + 1) % Limb, 0)
    ELSE IF count.e = 1 /\ count.lo % 2 = 1
    THEN Round(1, count.hi + (count.lo + 1) \div Limb,
                  (count.lo + 1) % Limb, 1)
    ELSE count

\* count + 1 for a negative count.
MinusOne(count) ==
    IF count.e = 0
    THEN IF count.hi = 0 /\ count.lo = 1 THEN Num(0)
         ELSE IF count.lo = 0
         THEN [count EXCEPT !.hi = @ - 1, !.lo = Limb - 1]
         ELSE [count EXCEPT !.lo = @ - 1]
    ELSE IF count.e = 1 /\ count.hi = HiLimit \div 2 /\ count.lo = 0
    THEN [count EXCEPT !.hi = HiLimit - 1, !.lo = Limb - 1, !.e = 0]
    ELSE IF count.e = 1 /\ count.lo % 2 = 1
    THEN [count EXCEPT !.lo = @ - 1]
    ELSE count

----------------------------------------------------------------------------
(* Values that may be passed as the numberFunction property.               *)

Closure(name, c) == [kind |-> "function", fn |-> name, count |-> c]

Undefined == [kind |-> "undefined", fn |-> "", count |-> Num(0)]

NotCallable == [kind |-> "string", fn |-> "", count |-> Num(0)]

IsCallable(h) == h.kind = "function"

----------------------------------------------------------------------------
(* Counter.js                                                              *)

\* addNumber with the sign of the step wrong: count - 1.
addNumberDown(count) ==
    IF count.inf THEN count
    ELSE IF count.sign = 1 /\ (count.hi # 0 \/ count.lo # 0 \/ count.e # 0)
    THEN MinusOne(count)
    ELSE [PlusOne(count) EXCEPT !.sign = -1]

\* const addNumber = () => { setCount(count + 1); }
addNumber(count) ==
    IF count.inf THEN count
    ELSE IF count.sign = 1 THEN PlusOne(count)
    ELSE MinusOne(count)

\* const multNumber = () => { setCount(count * 5); }
multNumber(count) ==
    IF count.inf THEN count
    ELSE Round(count.sign, count.hi * 5 + (count.lo * 5) \div Limb,
                           (count.lo * 5) % Limb, count.e)

\* resetNumber writing the captured count back instead of 0.
resetNumberKeeps(count) == count

\* const resetNumber = () => { setCount(0); }
resetNumber(count) == Num(0)

\* The argument a closure passes to setCount when it is called.
Body(h) ==
    CASE h.fn = "addNumber"   -> addNumber(h.count)
      [] h.fn = "multNumber"  -> multNumber(h.count)
      [] h.fn = "resetNumber" -> resetNumber(h.count)

\* setCount(v): the cell takes the value v; a re-render is scheduled when
\* the value differs from the current one.
setCount(v) ==
    /\ state' = v
    /\ pending' = (pending \/ v # state)

\* The three <CounterButton .../> tags of Counter's return statement.
CounterProps(count) ==
    << [numberFunction |-> Closure("addNumber", count),   buttonLabel |-> "++"],
       [numberFunction |-> Closure("multNumber", count),  buttonLabel |-> "*=5"],
       [numberFunction |-> Closure("resetNumber", count), buttonLabel |-> "=0"] >>

----------------------------------------------------------------------------
(* CounterButton.js                                                        *)

\* CounterButton that rewrites the label "++".
CounterButtonRelabels(properties) ==
    [type     |-> "button",
     onClick  |-> properties.numberFunction,
     children |-> IF properties.buttonLabel = "++"
                  THEN "+1" ELSE properties.buttonLabel]

\* CounterButton that replaces a value that is not a function by a default
\* callback when it renders.
CounterButtonGuarded(properties) ==
    [type     |-> "button",
     onClick  |-> IF IsCallable(properties.numberFunction)
                  THEN properties.numberFunction
                  ELSE Closure("resetNumber", Num(0)),
     children |-> properties.buttonLabel]

CounterButton(properties) ==
    [type     |-> "button",
     onClick  |-> properties.numberFunction,
     children |-> properties.buttonLabel]

----------------------------------------------------------------------------
(* View trees                                                              *)

\* A view tree: the text of the <span> and the rendered buttons.
View(count, ps) ==
    [count   |-> count,
     buttons |-> [i \in DOMAIN ps |-> CounterButton(ps[i])]]

\* Counter() showing a constant in the <span> instead of {count}.
CounterStaleDisplay(count) == View(Num(0), CounterProps(count))

\* Counter(): the tree for the current value of count.
Counter(count) == View(count, CounterProps(count))

----------------------------------------------------------------------------
(* The mounted Counter                                                     *)

Init ==
    /\ state = Num(0)
    /\ pending = FALSE
    /\ props = CounterProps(Num(0))
    /\ tree = Counter(Num(0))
    /\ clicked = << >>
    /\ trace = << >>
    /\ failures = 0

\* A click on the i-th rendered button: the runtime calls its onClick.
Click(i) ==
    /\ Len(clicked) < MaxClicks
    /\ i \in DOMAIN tree.buttons
    /\ clicked' = Append(clicked, i)
    /\ LET h == tree.buttons[i].onClick IN
         IF IsCallable(h)
         THEN /\ setCount(Body(h))
              /\ trace' = Append(trace, h.fn)
              /\ failures' = failures
         ELSE /\ IF h.kind = "undefined"
                 THEN failures' \in {failures, failures + 1}
                 ELSE failures' = failures + 1
              /\ UNCHANGED <<state, pending, trace>>
    /\ UNCHANGED <<props, tree>>

\* A render of Counter that writes the state cell.
RenderCounterWrites ==
    /\ pending
    /\ pending' = FALSE
    /\ state' = Num(0)
    /\ props' = CounterProps(state)
    /\ tree' = Counter(state)
    /\ UNCHANGED <<clicked, trace, failures>>

\* The scheduled re-render of Counter.
RenderCounter ==
    /\ pending
    /\ pending' = FALSE
    /\ props' = CounterProps(state)
    /\ tree' = Counter(state)
    /\ UNCHANGED <<state, clicked, trace, failures>>

Next ==
    \/ \E i \in 1..3 : Click(i)
    \/ RenderCounter

Spec == Init /\ [][Next]_vars

FairSpec == Init /\ [][Next]_vars /\ WF_vars(RenderCounter)

----------------------------------------------------------------------------
(* A long-lived Counter                                                    *)
(*                                                                         *)
(* Scaled(k) is the count after '++' and then k times '*=5', a render      *)
(* after each click.  The histories start empty when observation starts.   *)

\* multNumber applied n times, starting from count.
RECURSIVE MultTimes(_, _)
MultTimes(count, n) ==
    IF count.inf \/ n = 0 THEN count
    ELSE IF n = 1 THEN multNumber(count)
    ELSE MultTimes(MultTimes(count, n \div 2), n - n \div 2)

Scaled(k) == MultTimes(addNumber(Num(0)), k)

RunValues == {Num(0)} \cup {Scaled(k) : k \in 0..MaxScale}

InitLong ==
    /\ state \in RunValues
    /\ pending = FALSE
    /\ props = CounterProps(state)
    /\ tree = Counter(state)
    /\ clicked = << >>
    /\ trace = << >>
    /\ failures = 0

SpecLong == InitLong /\ [][Next]_vars

----------------------------------------------------------------------------
(* CounterButton under an arbitrary instantiator                           *)
(*                                                                         *)
(* CounterButton has no validation: the instantiator may pass any value    *)
(* as numberFunction and any string as buttonLabel.  The instantiator      *)
(* owns the same state cell and callbacks as Counter.                      *)

HostCallbacks ==
    { Closure(n, Num(0)) : n \in {"addNumber", "multNumber", "resetNumber"} }
        \cup {Undefined, NotCallable}

HostLabels == {"++", "=0", ""}

HostPropsSet == [numberFunction : HostCallbacks, buttonLabel : HostLabels]

\* The properties of the next render: function values are created afresh
\* and see the new count, everything else is passed as before.
HostProps(ps, count) ==
    [i \in DOMAIN ps |->
        IF IsCallable(ps[i].numberFunction)
        THEN [ps[i] EXCEPT !.numberFunction = Closure(@.fn, count)]
        ELSE ps[i]]

InitButton ==
    /\ state = Num(0)
    /\ pending = FALSE
    /\ props \in [1..HostButtons -> HostPropsSet]
    /\ tree = View(Num(0), props)
    /\ clicked = << >>
    /\ trace = << >>
    /\ failures = 0

RenderHost ==
    /\ pending
    /\ pending' = FALSE
    /\ props' = HostProps(props, state)
    /\ tree' = View(state, HostProps(props, state))
    /\ UNCHANGED <<state, clicked, trace, failures>>

NextButton ==
    \/ \E i \in 1..HostButtons : Click(i)
    \/ RenderHost

SpecButton == InitButton /\ [][NextButton]_vars

----------------------------------------------------------------------------
(* The transitions as the specification states them, over a live value.    *)

Transition(name, x) ==
    CASE name = "addNumber"   -> addNumber(x)
      [] name = "multNumber"  -> multNumber(x)
      [] name = "resetNumber" -> Num(0)

RECURSIVE FoldTransitions(_, _)
FoldTransitions(seq, x) ==
    IF seq = << >> THEN x
    ELSE FoldTransitions(Tail(seq), Transition(Head(seq), x))

Last(seq) == seq[Len(seq)]

----------------------------------------------------------------------------
(* Properties                                                              *)

\* C1: after each render the displayed value equals the left-to-right fold
\* of the transitions of all activations so far over the initial value 0.
C1_DisplayedIsFold ==
    ~pending => tree.count = FoldTransitions(trace, Num(0))

\* C2: every activation computes the next state from the value the state
\* cell has when the callback fires, also when no render happened since the
\* previous activation.
C2_LiveValue ==
    [][trace' # trace => state' = Transition(Last(trace'), state)]_vars

\* C3: reset is absorbing and idempotent: whenever the last activation (or
\* the last of a run of activations) was reset the state cell is 0, and so
\* is the value displayed once rendered.
C3_ResetAbsorbing ==
    (trace # << >> /\ Last(trace) = "resetNumber")
        => (state = Num(0) /\ (~pending => tree.count = Num(0)))

C3_Witness ==
    /\ Len(trace) >= 2
    /\ tree.count = Infinity
    /\ trace[Len(trace) - 1] = "resetNumber"
    /\ Last(trace) = "resetNumber"
    /\ state = Num(0)

\* C4: from the initial state 0, increment then scale yields 5 and scale
\* then increment yields 1, so the two orders differ.
C4_Orders ==
    /\ trace = <<"addNumber", "multNumber">> => state = Num(5)
    /\ trace = <<"multNumber", "addNumber">> => state = Num(1)

\* C5: a CounterButton passes its binding through: the rendered element
\* shows exactly buttonLabel and its handler is exactly numberFunction, and
\* one activation invokes exactly that callback once and nothing else.
C5_PassThrough ==
    /\ [](\A i \in DOMAIN props :
            /\ tree.buttons[i].children = props[i].buttonLabel
            /\ tree.buttons[i].onClick = props[i].numberFunction)
    /\ [][clicked' # clicked =>
            LET f == props[Last(clicked')].numberFunction IN
              IF IsCallable(f)
              THEN trace' = Append(trace, f.fn) /\ state' = Body(f)
              ELSE trace' = trace]_vars

C5_Witness ==
    /\ \E i \in DOMAIN props :
          /\ props[i].buttonLabel = "++"
          /\ tree.buttons[i].children = "++"
          /\ props[i].numberFunction.fn = "multNumber"
          /\ clicked # << >> /\ Last(clicked) = i
    /\ tree.count = Num(1)
    /\ state = Num(5)

\* C6: the state cell changes only in an activation that invokes one of
\* the three callbacks; a render (a change of the view tree or of the
\* properties handed to the buttons) leaves the state cell unchanged.
C6_OnlyCallbacksWrite ==
    [][/\ state' # state =>
            /\ clicked' # clicked
            /\ trace' = Append(trace, Last(trace'))
            /\ Last(trace') \in {"addNumber", "multNumber", "resetNumber"}
       /\ (tree' # tree \/ props' # props) => state' = state]_vars

C6_Witness ==
    /\ tree.count = Num(5)
    /\ state = Num(5)
    /\ ~pending

\* C7: a binding whose numberFunction is missing or not callable is
\* accepted at construction and render; a failure arises only in an
\* activation of such a button, an activation of a button whose
\* numberFunction is a non-function value always fails, and no activation
\* of such a button changes the state cell.
C7_FailsOnlyAtActivation ==
    /\ [](\A i \in DOMAIN props :
            tree.buttons[i].onClick = props[i].numberFunction)
    /\ [][/\ failures' # failures =>
               /\ clicked' # clicked
               /\ ~IsCallable(props[Last(clicked')].numberFunction)
               /\ failures' = failures + 1
          /\ (clicked' # clicked
                /\ ~IsCallable(props[Last(clicked')].numberFunction)) =>
               /\ state' = state
               /\ pending' = pending
               /\ trace' = trace
          /\ (clicked' # clicked
                /\ props[Last(clicked')].numberFunction = NotCallable) =>
               failures' = failures + 1
          /\ tree' # tree => failures' = failures]_vars

C7_Witness ==
    /\ failures > 0
    /\ state = Num(1)
    /\ tree.count = Num(1)
    /\ clicked # << >>
    /\ props[Last(clicked)].numberFunction = NotCallable

\* C8: activations are applied one after the other in the order processed
\* and none is lost: in every state the cell equals the transitions of all
\* processed activations applied in order.
C8_NoLostUpdate ==
    state = FoldTransitions(trace, Num(0))

IsNonNegativeInteger(v) == v.sign = 1 /\ ~v.inf

\* The number is not negative: 0, a positive integer or Infinity.
IsNonNegative(v) ==
    /\ v.sign = 1
    /\ v.inf \/ (v.hi \in 0..(HiLimit - 1) /\ v.lo \in 0..(Limb - 1)
                   /\ v.e \in 0..MaxExponent)

\* C10 as stated: in every reachable state the state cell and the
\* displayed value are non-negative integers.
C10_NonNegativeInteger ==
    /\ IsNonNegativeInteger(state)
    /\ IsNonNegativeInteger(tree.count)

\* C10 amended: in every reachable state the state cell and the displayed
\* value are not negative: each is a non-negative integer or, once the
\* product has left the range of a double, Infinity.
C10_NonNegative ==
    /\ IsNonNegative(state)
    /\ IsNonNegative(tree.count)

C10_Witness ==
    /\ state = Infinity
    /\ tree.count = Infinity
    /\ trace # << >>
    /\ Last(trace) = "addNumber"

====
